---- MODULE Spec2Model ----
(***************************************************************************)
(* redux-saga-fetch: the request lifecycle of src/src/index.js.            *)
(*                                                                         *)
(* A store holds the reduxSagaFetch slice (key -> {status, payload,        *)
(* errorPayload}).  One watcher per registered key forks worker tasks on   *)
(* the key's request action; a worker waits until no other key of its      *)
(* group is FETCHING, calls the fetcher and puts the success or failure    *)
(* action.  JavaScript values are modelled by tokens (strings).            *)
(***************************************************************************)
EXTENDS Integers, Sequences, FiniteSets, TLC

VARIABLES registry, state, tasks, rootSaga, lastAction, dispatched, startedWhile,
          lastCall, testKey

vars == <<registry, state, tasks, rootSaga, lastAction, dispatched, startedWhile,
          lastCall, testKey>>

----------------------------------------------------------------------------
(* Bounds *)

\* number of request actions dispatched in one behaviour
MaxStarts == 3

\* the keys of the configuration object
Keys == {"a", "b", "c"}

\* values of the group option
Groups == {"g", "h", "undefined"}

\* values of the takeStrategy option ("undefined": option not given)
TakeStrategies == {"undefined", "takeEvery", "takeLeading"}

\* action payloads of request actions
Inputs == {"undefined", "1234"}

\* values a fetcher resolves with
Responses == {"ok", "0"}

\* values a fetcher rejects with or throws
Errors == {"Error", "null"}

----------------------------------------------------------------------------
(* JavaScript values *)

Undefined == "undefined"

Null == "null"

Falsy == {"undefined", "null", "0", "false", "", "NaN"}

Truthy(v) == v \notin Falsy

STATE_FETCHING == "FETCHING"

STATE_SUCCESS == "SUCCESS"

STATE_FAILURE == "FAILURE"

\* keys that differ from a key of Keys in letter case only
UpperKeys == {"A", "B"}

\* key.toUpperCase()
ToUpperCase ==
  [k \in Keys \cup UpperKeys |->
     CASE k \in {"a", "A"} -> "A" [] k \in {"b", "B"} -> "B" [] k = "c" -> "C"]

\* the action types `REDUX_SAGA_FETCH_${key.toUpperCase()}_REQUEST` etc.
createRequestAction(key) == <<ToUpperCase[key], "REQUEST">>

createRequestSuccessAction(key) == <<ToUpperCase[key], "SUCCESS">>

createRequestFailureAction(key) == <<ToUpperCase[key], "FAILURE">>

----------------------------------------------------------------------------
(* Selectors *)

\* the store state as seen by the selectors and by `select`
State == [reduxSagaFetch |-> state, testKey |-> testKey]

\* a lookup that reads the path without the guard on missing parts
pathOrUnguarded(key, field, s, d) ==
  IF "reduxSagaFetch" \in DOMAIN s /\ key \in DOMAIN s.reduxSagaFetch
  THEN s.reduxSagaFetch[key][field]
  ELSE "TypeError"

\* pathOr(['reduxSagaFetch', key, field], s, d): the reduce step
\* (xs && xs[x] ? xs[x] : d) falls back to d on every falsy value.  d is
\* null or undefined in all uses, so once a step yields d the rest does too.
pathOr(key, field, s, d) ==
  IF "reduxSagaFetch" \in DOMAIN s
  THEN IF key \in DOMAIN s.reduxSagaFetch
       THEN IF Truthy(s.reduxSagaFetch[key][field])
            THEN s.reduxSagaFetch[key][field]
            ELSE d
       ELSE d
  ELSE d

isFetching(key, s) == pathOr(key, "status", s, Null) = STATE_FETCHING

isFetchFailure(key, s) == pathOr(key, "status", s, Null) = STATE_FAILURE

isFetchSuccess(key, s) == pathOr(key, "status", s, Null) = STATE_SUCCESS

selectPayload(key, s) == pathOr(key, "payload", s, Undefined)

selectErrorPayload(key, s) == pathOr(key, "errorPayload", s, Undefined)

\* pathOr(['reduxSagaFetch'], s, {})
states(s) == IF "reduxSagaFetch" \in DOMAIN s THEN s.reduxSagaFetch ELSE <<>>

\* mapStates without the filter on the status
mapStatesUnfiltered(s, status) == DOMAIN states(s)

\* the keys mapStates passes to mapFunc: those whose entry has the status
mapStates(s, status) == {key \in DOMAIN states(s) : states(s)[key].status = status}

\* Object.keys(states): the keys of the slice in property order, which a
\* snapshot that has the slice carries in its field order
ObjectKeys(s) == IF "reduxSagaFetch" \in DOMAIN s THEN s.order ELSE <<>>

\* Boolean(Object.keys(states).find(...)): find returns the first key
\* whose status is FAILURE, or undefined, and Boolean tests that value
hasFetchFailures(s) ==
  LET found == SelectSeq(ObjectKeys(s),
                         LAMBDA key : states(s)[key].status = STATE_FAILURE)
  IN  Truthy(IF found = <<>> THEN Undefined ELSE Head(found))

\* mapStates(state, STATE_FAILURE, (current, key) => ({key, error}))
selectErrorPayloads(s) ==
  LET keys == SelectSeq(ObjectKeys(s),
                        LAMBDA key : key \in mapStates(s, STATE_FAILURE))
  IN  [i \in 1..Len(keys) |->
         [key |-> keys[i], error |-> states(s)[keys[i]].errorPayload]]

\* fetchingActionsInGroup without any test of the group
fetchingActionsInGroupAnyGroup(s, reg, group, key) ==
  {k \in mapStates(s, STATE_FETCHING) : Truthy(k) /\ k # key}

\* fetchingActionsInGroup with the group test inverted
fetchingActionsInGroupOtherGroups(s, reg, group, key) ==
  IF Truthy(group)
  THEN {k \in {k2 \in mapStates(s, STATE_FETCHING) : reg[k2].group # group} :
          Truthy(k) /\ k # key}
  ELSE {}

\* the blockers of key: the other keys of its group that are FETCHING
fetchingActionsInGroup(s, reg, group, key) ==
  IF Truthy(group)
  THEN {k \in {k2 \in mapStates(s, STATE_FETCHING) : reg[k2].group = group} :
          Truthy(k) /\ k # key}
  ELSE {}

\* getFinishedActions without the failure actions
getFinishedActionsSuccessOnly(keys) == {createRequestSuccessAction(k) : k \in keys}

\* the action types a blocked worker takes
getFinishedActions(keys) ==
  {createRequestSuccessAction(k) : k \in keys} \cup
  {createRequestFailureAction(k) : k \in keys}

----------------------------------------------------------------------------
(* Registry and reducer *)

\* the options of one entry; the constructor accepts an entry only if its
\* fetcher is a function
OptionsType == [fetcher : {"function"}, group : Groups, takeStrategy : TakeStrategies]

\* the configurations the model starts from: a is in group g, b is in g or
\* ungrouped, c is in g or h, and b and c use the default strategy; a has
\* any strategy when the three keys share group g, else the default one
Registries ==
  {config \in [Keys -> OptionsType] :
     /\ config["a"].group = "g"
     /\ config["b"].group \in {"g", "undefined"}
     /\ config["b"].takeStrategy = "undefined"
     /\ config["c"].group \in {"g", "h"}
     /\ config["c"].takeStrategy = "undefined"
     /\ config["a"].takeStrategy # "undefined"
          => (config["b"].group = "g" /\ config["c"].group = "g")}

\* const { takeStrategy = takeLatest } = registry[key]
takeStrategyOf(key) ==
  IF registry[key].takeStrategy = Undefined THEN "takeLatest"
  ELSE registry[key].takeStrategy

\* an assignment that drops the other keys: { [key]: item }
AssignOnly(s, key, item) == [k \in {key} |-> item]

\* { ...state, [key]: item }
Assign(s, key, item) == [k \in DOMAIN s \cup {key} |-> IF k = key THEN item ELSE s[k]]

\* a request handler that merges into the previous entry
requestHandlerMerge(s, key) ==
  Assign(s, key, IF key \in DOMAIN s
                 THEN [s[key] EXCEPT !.status = STATE_FETCHING]
                 ELSE [status |-> STATE_FETCHING, payload |-> Undefined,
                       errorPayload |-> Undefined])

\* the three handlers wrapRootReducer installs per key
requestHandler(s, key) ==
  Assign(s, key, [status |-> STATE_FETCHING, payload |-> Undefined, errorPayload |-> Undefined])

successHandler(s, key, payload) ==
  Assign(s, key, [status |-> STATE_SUCCESS, payload |-> payload.response, errorPayload |-> Undefined])

failureHandler(s, key, payload) ==
  Assign(s, key, [status |-> STATE_FAILURE, payload |-> Undefined, errorPayload |-> payload.error])

\* the order in which the configuration objects of the model list their
\* keys
KeyOrder == <<"a", "A", "B", "b", "c">>

\* the position of a key in that order
KeyIndex == [k \in Keys \cup UpperKeys |-> CHOOSE n \in DOMAIN KeyOrder : KeyOrder[n] = k]

\* Object.keys(this.registry): the keys in the order of their insertion
registryKeys(reg) == SelectSeq(KeyOrder, LAMBDA k : k \in DOMAIN reg)

\* handlers[`REDUX_SAGA_FETCH_${key.toUpperCase()}_${kind}`] = ... for each
\* key in turn: the handler left under a type closes over the last key
\* that has this type
handlerKey(type, kind) ==
  CHOOSE k \in DOMAIN registry :
    /\ <<ToUpperCase[k], kind>> = type
    /\ \A k2 \in DOMAIN registry :
         <<ToUpperCase[k2], kind>> = type => KeyIndex[k2] <= KeyIndex[k]

\* handleActions(handlers, {}): the slice after an action
reducer(s, action) ==
  IF \E k \in DOMAIN registry : action.type = createRequestAction(k)
  THEN requestHandler(s, handlerKey(action.type, "REQUEST"))
  ELSE IF \E k \in DOMAIN registry : action.type = createRequestSuccessAction(k)
  THEN successHandler(s, handlerKey(action.type, "SUCCESS"), action.payload)
  ELSE IF \E k \in DOMAIN registry : action.type = createRequestFailureAction(k)
  THEN failureHandler(s, handlerKey(action.type, "FAILURE"), action.payload)
  ELSE s

----------------------------------------------------------------------------
(* Worker tasks *)

\* the worker's position: suspended in take, suspended in call, or returned
\* (a returned generator has no locals left)
TaskPcs == {"take", "call", "done"}

\* a task forked by a watcher: the generator of createDefaultWorker with
\* request, the payload of its action, and its local blockedInGroup;
\* cancelled marks a task the watcher has cancelled (a cancelled call leaves
\* the promise pending)
Task(key, request) ==
  [key |-> key, request |-> request, pc |-> "take", blockedInGroup |-> {},
   cancelled |-> FALSE, requestedState |-> Undefined]

\* const { selector = () => undefined } = registry[key]
selectorOf(key) ==
  IF "selector" \in DOMAIN registry[key] THEN registry[key].selector ELSE Undefined

\* yield select(selector): the selectors of the model are the default one
\* and state => state.testKey
select(selector, s) == IF selector = Undefined THEN Undefined ELSE s.testKey

\* a worker that applies the selector before the wait for the group
runWorkerEarlySelect(task, s) ==
  LET blockedInGroup ==
        fetchingActionsInGroup(s, registry, registry[task.key].group, task.key)
      requestedState ==
        IF task.blockedInGroup = {} THEN select(selectorOf(task.key), s)
        ELSE task.requestedState
  IN  [task EXCEPT !.pc = IF Cardinality(blockedInGroup) > 0 THEN "take" ELSE "call",
                   !.blockedInGroup = blockedInGroup,
                   !.requestedState = requestedState]

\* runWorker without the wait for the group
runWorkerNoWait(task, s) == [task EXCEPT !.pc = "call", !.blockedInGroup = {}]

\* the worker from the select of its blockers up to its next suspension:
\* it takes the finished actions of its blockers, or calls the fetcher
runWorker(task, s) ==
  LET blockedInGroup ==
        fetchingActionsInGroup(s, registry, registry[task.key].group, task.key)
  IN  IF Cardinality(blockedInGroup) > 0
      THEN [task EXCEPT !.pc = "take", !.blockedInGroup = blockedInGroup]
      ELSE [task EXCEPT !.pc = "call", !.blockedInGroup = blockedInGroup,
                        !.requestedState = select(selectorOf(task.key), s)]

\* createDefaultWorker(key, registry)(action): a new task run to its first
\* suspension
createDefaultWorker(key, action, s) == runWorker(Task(key, action.payload.request), s)

\* the tasks of key that have not returned and were not cancelled
Running(ts, key) ==
  {i \in DOMAIN ts : ts[i].key = key /\ ts[i].pc # "done" /\ ~ts[i].cancelled}

\* the task after its generator has returned
return(task) ==
  [task EXCEPT !.pc = "done", !.request = "undefined", !.blockedInGroup = {},
               !.requestedState = Undefined]

\* a cancellation that reaches only a task suspended in call
cancelCallOnly(task) ==
  IF task.pc = "call" THEN [task EXCEPT !.cancelled = TRUE] ELSE task

\* cancellation of a task: a task suspended in take returns, a task
\* suspended in call returns once its promise settles, without any put
cancel(task) ==
  IF task.pc = "take" THEN [return(task) EXCEPT !.cancelled = TRUE]
  ELSE IF task.pc = "call" THEN [task EXCEPT !.cancelled = TRUE]
  ELSE task

\* takeLatest without the cancellation of the previous task
takeLatestNoCancel(ts, key, action, s) == Append(ts, createDefaultWorker(key, action, s))

\* takeLatest(action, worker): cancel the previous task if it still runs,
\* then fork a new one
takeLatest(ts, key, action, s) ==
  Append([i \in DOMAIN ts |-> IF i \in Running(ts, key) THEN cancel(ts[i]) ELSE ts[i]],
         createDefaultWorker(key, action, s))

\* takeEvery that cancels the running task of the key like takeLatest
takeEveryCancels(ts, key, action, s) == takeLatest(ts, key, action, s)

\* takeEvery(action, worker): fork a new task on every action
takeEvery(ts, key, action, s) == Append(ts, createDefaultWorker(key, action, s))

\* takeLeading that forks a task although the worker still runs
takeLeadingForks(ts, key, action, s) == Append(ts, createDefaultWorker(key, action, s))

\* takeLeading(action, worker): the watcher calls the worker and takes no
\* action until it has returned
takeLeading(ts, key, action, s) ==
  IF Running(ts, key) # {} THEN ts ELSE Append(ts, createDefaultWorker(key, action, s))

\* the watcher of key on its request action: yield takeStrategy(action, worker)
createWatcher(ts, key, action, s) ==
  CASE takeStrategyOf(key) = "takeLatest" -> takeLatest(ts, key, action, s)
    [] takeStrategyOf(key) = "takeEvery" -> takeEvery(ts, key, action, s)
    [] takeStrategyOf(key) = "takeLeading" -> takeLeading(ts, key, action, s)

\* all(createWatchers(registry)): the watchers, in the order of the keys,
\* each on the request action of its key; every watcher whose action has
\* the type of the dispatched one takes it
RECURSIVE createWatchers(_, _, _, _)
createWatchers(ts, keys, action, s) ==
  IF keys = <<>> THEN ts
  ELSE createWatchers(IF createRequestAction(Head(keys)) = action.type
                      THEN createWatcher(ts, Head(keys), action, s)
                      ELSE ts,
                      Tail(keys), action, s)

\* a take that is resumed only when the action comes from the one blocker
\* left
TakesAll(task, action) ==
  /\ task.pc = "take"
  /\ ~task.cancelled
  /\ action.type \in getFinishedActions(task.blockedInGroup)
  /\ Cardinality(task.blockedInGroup) = 1

\* a task suspended in take(getFinishedActions(blockedInGroup)) is resumed
\* by an action of one of these types
Takes(task, action) ==
  /\ task.pc = "take"
  /\ ~task.cancelled
  /\ action.type \in getFinishedActions(task.blockedInGroup)

----------------------------------------------------------------------------
(* Actions *)

Init ==
  /\ registry \in Registries
  /\ state = <<>>
  /\ tasks = <<>>
  /\ rootSaga = "running"
  /\ lastAction = [type |-> <<"@@redux", "INIT">>, payload |-> [request |-> Undefined]]
  /\ dispatched = <<>>
  /\ startedWhile = {}
  /\ lastCall = [fn |-> "none"]
  /\ testKey = "testValue"

\* store.dispatch(createRequestAction(key)(input)), for a registered key or
\* not: the reducer runs, then the watchers of this action type take the
\* action.  Payloads are records: the payload
\* of a request action is written [request |-> input].
Dispatch(key, input) ==
  LET action == [type |-> createRequestAction(key), payload |-> [request |-> input]]
      s2 == reducer(state, action)
  IN  /\ Len(dispatched) < MaxStarts
      /\ state' = s2
      /\ lastAction' = action
      /\ tasks' = IF rootSaga = "running"
                  THEN createWatchers(tasks, registryKeys(registry), action,
                                      [reduxSagaFetch |-> s2, testKey |-> testKey])
                  ELSE tasks
      /\ dispatched' = Append(dispatched, key)
      /\ startedWhile' = startedWhile \cup
           {<<key, k>> : k \in {k2 \in Keys \ {key} : isFetching(k2, State)}}
      /\ UNCHANGED <<registry, rootSaga, lastCall, testKey>>

\* a put whose action reaches the reducer and no suspended task
PutMissed(i, action) ==
  /\ state' = reducer(state, action)
  /\ lastAction' = action
  /\ tasks' = [tasks EXCEPT ![i] = return(tasks[i])]
  /\ startedWhile' = {p \in startedWhile : p[2] # tasks[i].key}
  /\ UNCHANGED <<registry, rootSaga, dispatched, lastCall, testKey>>

\* yield put(action) by task i, which then returns: the reducer runs, then
\* every task that takes the action is resumed
Put(i, action) ==
  LET s2 == reducer(state, action)
  IN  /\ state' = s2
      /\ lastAction' = action
      /\ tasks' = [j \in DOMAIN tasks |->
                    IF j = i THEN return(tasks[j])
                    ELSE IF Takes(tasks[j], action)
                         THEN runWorker(tasks[j], [reduxSagaFetch |-> s2, testKey |-> testKey])
                         ELSE tasks[j]]
      /\ startedWhile' = {p \in startedWhile : p[2] # tasks[i].key}
      /\ UNCHANGED <<registry, rootSaga, dispatched, lastCall, testKey>>

\* a success action that carries the payload of the last action of the
\* store as its request
OnResolveLastRequest(i, response) ==
  Put(i, [type |-> createRequestSuccessAction(tasks[i].key),
          payload |-> [response |-> response, request |-> lastAction.payload.request]])

\* a worker whose put of the success action is followed by the put of the
\* catch clause
OnResolveFallsToCatch(i, response) ==
  Put(i, [type |-> createRequestFailureAction(tasks[i].key),
          payload |-> [error |-> response, request |-> tasks[i].request]])

\* the call returned: put the success action
OnResolve(i, response) ==
  Put(i, [type |-> createRequestSuccessAction(tasks[i].key),
          payload |-> [response |-> response, request |-> tasks[i].request]])

\* the error escapes the worker: the root saga and all its tasks end
OnRejectUncaught(i, error) ==
  /\ rootSaga' = "aborted"
  /\ tasks' = [j \in DOMAIN tasks |->
                IF j = i THEN return(tasks[j]) ELSE cancel(tasks[j])]
  /\ UNCHANGED <<registry, state, lastAction, dispatched, startedWhile, lastCall,
                 testKey>>

\* the call threw: the catch clause puts the failure action
OnReject(i, error) ==
  Put(i, [type |-> createRequestFailureAction(tasks[i].key),
          payload |-> [error |-> error, request |-> tasks[i].request]])

\* the outcome of a cancelled task is put as if the task still ran
DroppedPutsOutcome(i) ==
  OnResolve(i, "ok")

\* the promise of a cancelled task settles: nothing is put
Dropped(i) ==
  /\ tasks' = [tasks EXCEPT ![i] = return(tasks[i])]
  /\ UNCHANGED <<registry, state, rootSaga, lastAction, dispatched, startedWhile,
                 lastCall, testKey>>

\* the fetcher called by task i resolves
Resolve(i, response) ==
  /\ i \in DOMAIN tasks
  /\ tasks[i].pc = "call"
  /\ IF tasks[i].cancelled THEN Dropped(i) ELSE OnResolve(i, response)

\* the fetcher called by task i rejects or throws
Reject(i, error) ==
  /\ i \in DOMAIN tasks
  /\ tasks[i].pc = "call"
  /\ IF tasks[i].cancelled THEN Dropped(i) ELSE OnReject(i, error)

Next ==
  \/ \E key \in Keys, input \in Inputs : Dispatch(key, input)
  \/ \E i \in 1..MaxStarts, response \in Responses : Resolve(i, response)
  \/ \E i \in 1..MaxStarts, error \in Errors : Reject(i, error)

Spec == Init /\ [][Next]_vars

\* the promise of the call of task i settles
Settle(i) ==
  \/ \E response \in Responses : Resolve(i, response)
  \/ \E error \in Errors : Reject(i, error)

\* the configurations with the default strategy for every key
InitFair == Init /\ \A k \in Keys : registry[k].takeStrategy = "undefined"

\* the behaviours of the configurations with the default strategy
LatestSpec == InitFair /\ [][Next]_vars

\* the configurations with the default strategy in which a and b share
\* group g
InitGroup == InitFair /\ registry["b"].group = "g"

\* every fetch that was called settles; request actions may stop at any time
FairSpec == InitGroup /\ [][Next]_vars /\ \A i \in 1..MaxStarts : WF_vars(Settle(i))

TypeOK ==
  /\ registry \in Registries
  /\ DOMAIN state \subseteq Keys
  /\ rootSaga \in {"running", "aborted"}
  /\ Len(tasks) <= MaxStarts
  /\ \A i \in DOMAIN tasks : tasks[i].pc \in TaskPcs /\ tasks[i].key \in Keys

----------------------------------------------------------------------------
(* The selectors applied to snapshots of the store state *)

\* the keys with an entry in a snapshot, the empty string among them
SnapshotKeys == {"a", ""}

\* a key that is not registered and never requested
Unregistered == "u"

\* the entries the reducer writes
Entries ==
  {[status |-> STATE_FETCHING, payload |-> Undefined, errorPayload |-> Undefined]}
  \cup {[status |-> STATE_SUCCESS, payload |-> r, errorPayload |-> Undefined] :
          r \in Responses}
  \cup {[status |-> STATE_FAILURE, payload |-> Undefined, errorPayload |-> e] :
          e \in Errors}

\* the orders in which keys got their entry
KeyOrders ==
  {<<>>} \cup {<<k>> : k \in SnapshotKeys}
  \cup {o \in SnapshotKeys \X SnapshotKeys : o[1] # o[2]}

Range(seq) == {seq[i] : i \in DOMAIN seq}

\* a state without the slice, and the slices the reducer can produce
Snapshots ==
  {[testKey |-> "testValue"]}
  \cup UNION {{[reduxSagaFetch |-> slice, order |-> order] :
                 slice \in [Range(order) -> Entries]} : order \in KeyOrders}

InitSelectors ==
  /\ registry = <<>>
  /\ state = <<>>
  /\ tasks = <<>>
  /\ rootSaga = "running"
  /\ lastAction = [type |-> <<"@@redux", "INIT">>, payload |-> [request |-> Undefined]]
  /\ dispatched = <<>>
  /\ startedWhile = {}
  /\ lastCall = [fn |-> "none"]
  /\ testKey = "testValue"

\* the selectors of key and the selectors of the whole slice applied to s
Select(s, key) ==
  /\ lastCall' = [fn |-> "selectors",
                  state |-> s,
                  key |-> key,
                  isFetching |-> isFetching(key, s),
                  isFetchSuccess |-> isFetchSuccess(key, s),
                  isFetchFailure |-> isFetchFailure(key, s),
                  selectPayload |-> selectPayload(key, s),
                  selectErrorPayload |-> selectErrorPayload(key, s),
                  hasFetchFailures |-> hasFetchFailures(s),
                  selectErrorPayloads |-> selectErrorPayloads(s)]
  /\ UNCHANGED <<registry, state, tasks, rootSaga, lastAction, dispatched,
                 startedWhile, testKey>>

NextSelectors ==
  \E s \in Snapshots, key \in SnapshotKeys \cup {Unregistered} : Select(s, key)

SelectorSpec == InitSelectors /\ [][NextSelectors]_vars

----------------------------------------------------------------------------
(* Construction of the registry *)

\* the most entries a configuration has
MaxEntries == 2

\* typeof of the fetcher property of a descriptor
FetcherTypes == {"function", "undefined", "string"}

\* the values a configuration holds per key: descriptors, a string as in
\* {foo: 'bar'} and ['foo'], and null
OptionValues ==
  {[kind |-> "object", fetcher |-> f, group |-> Undefined, takeStrategy |-> Undefined] :
     f \in FetcherTypes}
  \cup {[kind |-> "object", fetcher |-> "function", group |-> "g",
         takeStrategy |-> "takeEvery"]}
  \cup {[kind |-> "string"], [kind |-> "null"]}

\* Object.keys of an object literal and of an array
ConfigKeys == [object |-> <<"a", "b", "c", "d">>, array |-> <<"0", "1", "2", "3">>]

\* the arguments of createSagaFetcher: objects and arrays with up to
\* MaxEntries entries in key order, the strings '' and 'f', and null
Configs ==
  UNION {{[kind |-> kind,
           entries |-> [i \in 1..n |-> [key |-> ConfigKeys[kind][i], options |-> opts[i]]]] :
            opts \in [1..n -> OptionValues]} :
          kind \in {"object", "array"}, n \in 0..MaxEntries}
  \cup {[kind |-> "string", entries |-> <<>>],
        [kind |-> "string", entries |-> <<[key |-> "0", options |-> [kind |-> "string"]]>>],
        [kind |-> "null", entries |-> <<>>]}

\* typeof config
typeof(config) == IF config.kind = "string" THEN "string" ELSE "object"

\* typeof options.fetcher; reading a property of null throws a TypeError
typeofFetcher(options) ==
  CASE options.kind = "object" -> options.fetcher
    [] options.kind = "string" -> "undefined"
    [] options.kind = "null" -> "TypeError"

\* add without the test of the fetcher
addUnchecked(reg, key, options) ==
  [threw |-> FALSE,
   registry |-> Assign(reg, key, [fetcher |-> typeofFetcher(options),
                                  group |-> Undefined, takeStrategy |-> Undefined])]

\* add that spreads the descriptor over the one already registered:
\* a property the new descriptor lacks keeps its old value
addMerge(reg, key, options) ==
  IF typeofFetcher(options) # "function"
  THEN [threw |-> TRUE, registry |-> reg]
  ELSE LET old == IF key \in DOMAIN reg THEN reg[key]
                  ELSE [fetcher |-> Undefined, group |-> Undefined,
                        takeStrategy |-> Undefined]
           merged(new, prev) == IF new = Undefined THEN prev ELSE new
       IN  [threw |-> FALSE,
            registry |-> Assign(reg, key,
                           [fetcher |-> options.fetcher,
                            group |-> merged(options.group, old.group),
                            takeStrategy |-> merged(options.takeStrategy,
                                                    old.takeStrategy)])]

\* add that stores the descriptor before it tests the fetcher
addAssignsFirst(reg, key, options) ==
  [threw |-> typeofFetcher(options) # "function",
   registry |-> Assign(reg, key, [fetcher |-> typeofFetcher(options),
                                  group |-> Undefined, takeStrategy |-> Undefined])]

\* add(key, options): throws unless the fetcher is a function, else stores
\* a copy of the descriptor
add(reg, key, options) ==
  IF typeofFetcher(options) # "function"
  THEN [threw |-> TRUE, registry |-> reg]
  ELSE [threw |-> FALSE,
        registry |-> Assign(reg, key, [fetcher |-> options.fetcher,
                                       group |-> options.group,
                                       takeStrategy |-> options.takeStrategy])]

\* Object.keys(config).forEach(key => this.add(key, config[key])): the
\* first add that throws ends the loop
RECURSIVE forEachAdd(_, _)
forEachAdd(reg, entries) ==
  IF entries = <<>> THEN [threw |-> FALSE, registry |-> reg]
  ELSE LET added == add(reg, Head(entries).key, Head(entries).options)
       IN  IF added.threw THEN added
           ELSE forEachAdd(added.registry, Tail(entries))

\* new SagaFetcher(config): Object.keys(null) throws a TypeError
constructor(config) ==
  IF typeof(config) # "object" \/ config.kind = "null"
  THEN [threw |-> TRUE, registry |-> <<>>]
  ELSE forEachAdd(<<>>, config.entries)

\* createSagaFetcher(config); an instance exists when it returns
createSagaFetcher(config) ==
  LET made == constructor(config)
  IN  /\ lastCall.fn = "none"
      /\ registry' = made.registry
      /\ lastCall' = [fn |-> "createSagaFetcher", config |-> config,
                      threw |-> made.threw, instance |-> ~made.threw]
      /\ UNCHANGED <<state, tasks, rootSaga, lastAction, dispatched, startedWhile,
                     testKey>>

\* sagaFetcher.add(key, options) on the instance; lastCall keeps the
\* registry as it was before the call
Add(key, options) ==
  LET added == add(registry, key, options)
  IN  /\ lastCall.fn \in {"createSagaFetcher", "add"}
      /\ lastCall.instance
      /\ registry' = added.registry
      /\ lastCall' = [fn |-> "add", key |-> key, options |-> options,
                      threw |-> added.threw, instance |-> TRUE,
                      before |-> registry]
      /\ UNCHANGED <<state, tasks, rootSaga, lastAction, dispatched, startedWhile,
                     testKey>>

NextConstruct ==
  \/ \E config \in Configs : createSagaFetcher(config)
  \/ \E key \in {"a", "b"}, options \in OptionValues : Add(key, options)

ConstructSpec == InitSelectors /\ [][NextConstruct]_vars

----------------------------------------------------------------------------
(* Vocabulary of the properties *)

\* the status of key in the slice; a key without an entry is idle
StatusOf(s, key) == IF key \in DOMAIN s THEN s[key].status ELSE "IDLE"

Terminal == {STATE_SUCCESS, STATE_FAILURE}

\* key has a cycle that called its fetcher and has not put its outcome
Executing(key) ==
  \E i \in DOMAIN tasks :
    tasks[i].key = key /\ tasks[i].pc = "call" /\ ~tasks[i].cancelled

\* key has a cycle suspended in the wait for its group
Waiting(key) ==
  \E i \in DOMAIN tasks :
    tasks[i].key = key /\ tasks[i].pc = "take" /\ ~tasks[i].cancelled

\* the keys registered with group
Members(group) == {k \in Keys : registry[k].group = group}

SameGroup(k1, k2) ==
  k1 # k2 /\ Truthy(registry[k1].group) /\ registry[k1].group = registry[k2].group

\* the step calls the fetcher of key
Invokes(key) ==
  \E i \in DOMAIN tasks' :
    /\ tasks'[i].key = key
    /\ tasks'[i].pc = "call"
    /\ (i \in DOMAIN tasks => tasks[i].pc # "call")

----------------------------------------------------------------------------
(* Group coordination *)

\* C1: in a group all of whose keys use takeLatest, at most one key has a
\* cycle that called its fetcher and has not yet put its outcome.
C1_GroupMutualExclusion ==
  \A group \in Groups :
    (Truthy(group) /\ \A k \in Members(group) : takeStrategyOf(k) = "takeLatest")
      => Cardinality({k \in Members(group) : Executing(k)}) <= 1

\* one key of a takeLatest group executes its fetch while another one waits
C1_Witness ==
  \E k1, k2 \in Keys :
    /\ SameGroup(k1, k2)
    /\ \A k \in Members(registry[k1].group) : takeStrategyOf(k) = "takeLatest"
    /\ Executing(k1)
    /\ Waiting(k2)

\* C2 as stated: while a request of B was dispatched with A of the same
\* group FETCHING, and A has not reached SUCCESS or FAILURE since, B stays
\* FETCHING and the fetcher of B is not called.
C2_Original ==
  [][\A p \in startedWhile' :
       SameGroup(p[1], p[2]) => (isFetching(p[1], State') /\ ~Invokes(p[1]))]_vars

\* C2 amended: the same for every B that uses takeLatest.
C2_BlockedUntilTerminal ==
  [][\A p \in startedWhile' :
       (SameGroup(p[1], p[2]) /\ takeStrategyOf(p[1]) = "takeLatest")
         => (isFetching(p[1], State') /\ ~Invokes(p[1]))]_vars

\* B (takeLatest) was requested while A was FETCHING, A still is, B waits
C2_Witness ==
  \E p \in startedWhile :
    /\ SameGroup(p[1], p[2])
    /\ takeStrategyOf(p[1]) = "takeLatest"
    /\ isFetching(p[2], State)
    /\ Waiting(p[1])
    /\ Executing(p[2])

\* the only requests are one for A and then one for B, the two members of
\* a group
C3_Scenario(A, B) ==
  /\ dispatched = <<A, B>>
  /\ SameGroup(A, B)
  /\ Members(registry[A].group) = {A, B}

\* C3: in that scenario, once A is SUCCESS or FAILURE the fetcher of B has
\* been called, and as no further request is dispatched and the fetches
\* settle, both keys end in SUCCESS or FAILURE.
C3_SecondProceeds ==
  /\ [](\A A, B \in Keys :
          (C3_Scenario(A, B) /\ StatusOf(state, A) \in Terminal)
            => (Executing(B) \/ StatusOf(state, B) \in Terminal))
  /\ (\E A, B \in Keys : C3_Scenario(A, B)) ~>
       (\/ Len(dispatched) > 2
        \/ \A i \in DOMAIN dispatched : StatusOf(state, dispatched[i]) \in Terminal)

\* A has just finished while B waited for it, and the fetcher of B is called
C3_Witness ==
  \E A, B \in Keys :
    /\ C3_Scenario(A, B)
    /\ lastAction.type \in getFinishedActions({A})
    /\ StatusOf(state, B) = STATE_FETCHING
    /\ Executing(B)

\* C4 as stated, in the form of its consequence on a single state: a cycle
\* suspended in the wait for its group can only be resumed by the outcome
\* of a cycle that executes its fetch, so whenever a cycle waits, some
\* cycle executes.
C4_Original ==
  (\E k \in Keys : Waiting(k)) => (\E k \in Keys : Executing(k))

----------------------------------------------------------------------------
(* Status entries *)

\* C5 as stated: whatever its strategy, a key with a cycle that has taken
\* a request and has not put its outcome is FETCHING.
C5_Original ==
  \A k \in Keys :
    Running(tasks, k) # {}
      => (/\ isFetching(k, State)
          /\ ~isFetchSuccess(k, State)
          /\ ~isFetchFailure(k, State))

\* C5 amended: the same for the keys that use takeLatest or takeLeading.
C5_RunningIsFetching ==
  \A k \in Keys :
    (takeStrategyOf(k) \in {"takeLatest", "takeLeading"} /\ Running(tasks, k) # {})
      => (/\ isFetching(k, State)
          /\ ~isFetchSuccess(k, State)
          /\ ~isFetchFailure(k, State))

\* a takeLatest key restarted while its fetch was running waits for its
\* group, and a takeLeading key executes its fetch
C5_Witness ==
  \E k1, k2 \in Keys :
    /\ takeStrategyOf(k1) = "takeLatest"
    /\ Waiting(k1)
    /\ \E i \in DOMAIN tasks : tasks[i].key = k1 /\ tasks[i].cancelled
    /\ takeStrategyOf(k2) = "takeLeading"
    /\ Executing(k2)

\* C6 as stated: after the success action of K with response V, K is
\* SUCCESS, selectPayload(K) is V and selectErrorPayload(K) is undefined.
C6_Original ==
  \A k \in Keys :
    lastAction.type = createRequestSuccessAction(k)
      => (/\ isFetchSuccess(k, State)
          /\ ~isFetching(k, State)
          /\ ~isFetchFailure(k, State)
          /\ selectPayload(k, State) = lastAction.payload.response
          /\ selectErrorPayload(k, State) = Undefined)

\* C7 as stated: after the failure action of K with error E, K is FAILURE,
\* selectErrorPayload(K) is E and selectPayload(K) is undefined.
C7_Original ==
  \A k \in Keys :
    lastAction.type = createRequestFailureAction(k)
      => (/\ isFetchFailure(k, State)
          /\ ~isFetching(k, State)
          /\ ~isFetchSuccess(k, State)
          /\ selectErrorPayload(k, State) = lastAction.payload.error
          /\ selectPayload(k, State) = Undefined)

\* the step in which the fetch of task i rejects
Rejects(i) ==
  /\ tasks[i].pc = "call"
  /\ ~tasks[i].cancelled
  /\ tasks'[i].pc = "done"
  /\ lastAction'.type # createRequestSuccessAction(tasks[i].key)

\* C8: a rejected fetch becomes the failure action and the FAILURE entry of
\* its key and nothing else: the root saga keeps running, no other entry
\* changes, no other task ends; and a request for a key that is FAILURE
\* forks a new cycle.
C8_FailureContained ==
  [][/\ \A i \in DOMAIN tasks :
          Rejects(i) =>
            LET k == tasks[i].key
            IN  /\ rootSaga' = "running"
                /\ lastAction'.type = createRequestFailureAction(k)
                /\ lastAction'.payload.error \in Errors
                /\ state'[k] = [status |-> STATE_FAILURE, payload |-> Undefined,
                                errorPayload |-> lastAction'.payload.error]
                /\ DOMAIN state' = DOMAIN state
                /\ \A k2 \in DOMAIN state \ {k} : state'[k2] = state[k2]
                /\ \A j \in DOMAIN tasks \ {i} :
                     /\ tasks'[j].cancelled = tasks[j].cancelled
                     /\ tasks[j].pc # "done" => tasks'[j].pc # "done"
     /\ \A k \in Keys :
          (/\ StatusOf(state, k) = STATE_FAILURE
           /\ dispatched' = Append(dispatched, k))
            => (/\ Len(tasks') = Len(tasks) + 1
                /\ tasks'[Len(tasks')].key = k
                /\ tasks'[Len(tasks')].pc # "done")]_vars

\* K has failed while the cycles of the other keys go on, one waiting no
\* longer for K
C8_Witness ==
  \E k, k2 \in Keys :
    /\ k # k2
    /\ lastAction.type = createRequestFailureAction(k)
    /\ StatusOf(state, k) = STATE_FAILURE
    /\ StatusOf(state, k2) = STATE_FETCHING
    /\ SameGroup(k, k2)
    /\ Executing(k2)
    /\ rootSaga = "running"

\* C9: no entry has both a payload and an error payload; a FETCHING entry
\* has neither, a SUCCESS entry no error payload, a FAILURE entry no payload.
C9_EntryInvariant ==
  \A k \in DOMAIN state :
    /\ state[k].payload = Undefined \/ state[k].errorPayload = Undefined
    /\ state[k].status = STATE_FETCHING
         => (state[k].payload = Undefined /\ state[k].errorPayload = Undefined)
    /\ state[k].status = STATE_SUCCESS => state[k].errorPayload = Undefined
    /\ state[k].status = STATE_FAILURE => state[k].payload = Undefined

\* one key restarted after a failure, one SUCCESS with a payload, one
\* FAILURE with an error
C9_Witness ==
  \E k1, k2 \in DOMAIN state :
    /\ state[k1].status = STATE_SUCCESS /\ state[k1].payload # Undefined
    /\ state[k2].status = STATE_FAILURE /\ state[k2].errorPayload # Undefined

\* the step in which a cycle of key puts its outcome
Emits(key) ==
  \E i \in DOMAIN tasks :
    /\ tasks[i].key = key
    /\ tasks[i].pc = "call"
    /\ tasks'[i].pc = "done"
    /\ lastAction'.type \in getFinishedActions({key})
    /\ ~tasks[i].cancelled

\* C10: the status of a takeLatest key changes only from idle to FETCHING,
\* from FETCHING to SUCCESS or FAILURE and from these back to FETCHING; an
\* outcome is put only while the key is FETCHING, and the request that
\* leaves SUCCESS or FAILURE clears payload and error payload.
C10_Lifecycle ==
  [][\A k \in Keys :
       takeStrategyOf(k) = "takeLatest" =>
         LET old == StatusOf(state, k)
             new == StatusOf(state', k)
         IN  /\ <<old, new>> \in
                  {<<"IDLE", "IDLE">>, <<"IDLE", STATE_FETCHING>>,
                   <<STATE_FETCHING, STATE_FETCHING>>,
                   <<STATE_FETCHING, STATE_SUCCESS>>,
                   <<STATE_FETCHING, STATE_FAILURE>>,
                   <<STATE_SUCCESS, STATE_FETCHING>>,
                   <<STATE_FAILURE, STATE_FETCHING>>,
                   <<STATE_SUCCESS, STATE_SUCCESS>>,
                   <<STATE_FAILURE, STATE_FAILURE>>}
             /\ (old \in Terminal /\ new = old) => state'[k] = state[k]
             /\ Emits(k) => (old = STATE_FETCHING /\ new \in Terminal)
             /\ (old \in Terminal /\ new = STATE_FETCHING)
                  => (/\ state'[k].payload = Undefined
                      /\ state'[k].errorPayload = Undefined
                      /\ selectPayload(k, State') = Undefined
                      /\ selectErrorPayload(k, State') = Undefined)]_vars

\* a takeLatest key that had reached SUCCESS with a payload is FETCHING again
C10_Witness ==
  \E k \in Keys :
    /\ takeStrategyOf(k) = "takeLatest"
    /\ StatusOf(state, k) = STATE_FETCHING
    /\ lastAction.type = createRequestAction(k)
    /\ \E i \in DOMAIN tasks :
         tasks[i].key = k /\ tasks[i].pc = "done" /\ ~tasks[i].cancelled

----------------------------------------------------------------------------
(* takeLatest: a request supersedes the running cycle of its key *)

\* a cycle of the key that was forked before another cycle of the same key
Superseded(ts, i) ==
  \E j \in DOMAIN ts : j > i /\ ts[j].key = ts[i].key

\* the cycle of the most recent request of key
Newest(ts, key) ==
  {i \in DOMAIN ts : ts[i].key = key /\ ~Superseded(ts, i)}

\* C11: for a takeLatest key, the step in which the fetch of a superseded
\* cycle settles changes neither the store nor the last action; the key is
\* FETCHING as long as a cycle of it runs; when the fetch of the cycle of
\* the most recent request settles, its outcome is put and the entry holds
\* the status, payload and error of that fetch.
C11_LatestSupersedes ==
  [][\A k \in Keys :
       takeStrategyOf(k) = "takeLatest" =>
         /\ \A i \in DOMAIN tasks :
              (/\ tasks[i].key = k
               /\ Superseded(tasks, i)
               /\ tasks[i].pc = "call"
               /\ tasks'[i].pc = "done")
                => (state' = state /\ lastAction' = lastAction)
         /\ Running(tasks', k) # {} => StatusOf(state', k) = STATE_FETCHING
         /\ \A i \in Newest(tasks, k) :
              (tasks[i].pc = "call" /\ tasks'[i].pc = "done")
                => /\ lastAction'.type \in getFinishedActions({k})
                   /\ lastAction'.payload.request = tasks[i].request
                   /\ \/ /\ lastAction'.type = createRequestSuccessAction(k)
                         /\ state'[k] = [status |-> STATE_SUCCESS,
                                         payload |-> lastAction'.payload.response,
                                         errorPayload |-> Undefined]
                      \/ /\ lastAction'.type = createRequestFailureAction(k)
                         /\ state'[k] = [status |-> STATE_FAILURE,
                                         payload |-> Undefined,
                                         errorPayload |-> lastAction'.payload.error]]_vars

\* the fetch of the first cycle of a takeLatest key has settled after a
\* second request of the key superseded it, and the key is still FETCHING
\* for the second cycle
C11_Witness ==
  \E k \in Keys :
    /\ takeStrategyOf(k) = "takeLatest"
    /\ Len(dispatched) >= 2 /\ dispatched[1] = k /\ dispatched[2] = k
    /\ tasks[1].pc = "done" /\ tasks[1].cancelled
    /\ tasks[2].key = k /\ tasks[2].pc = "call" /\ ~tasks[2].cancelled
    /\ StatusOf(state, k) = STATE_FETCHING

----------------------------------------------------------------------------
(* A fetch that never settles *)

\* a cycle of key A called its fetcher, and in this step the call neither
\* settles nor is cancelled by another request of A
Pending(A) ==
  \E i \in DOMAIN tasks :
    /\ tasks[i].key = A
    /\ tasks[i].pc = "call"
    /\ ~tasks[i].cancelled
    /\ tasks'[i] = tasks[i]

----------------------------------------------------------------------------
(* Selectors on keys that were never requested and on whole slices *)

\* the slice of the snapshot the selectors were applied to
SliceOf(call) == states(call.state)

\* C13: for a key without an entry in the snapshot, also when the snapshot
\* has no reduxSagaFetch slice, isFetching, isFetchSuccess and
\* isFetchFailure return false and selectPayload and selectErrorPayload
\* return undefined; no lookup fails.
C13_NeverStartedKey ==
  (lastCall.fn = "selectors" /\ lastCall.key \notin DOMAIN SliceOf(lastCall))
    => /\ lastCall.isFetching = FALSE
       /\ lastCall.isFetchSuccess = FALSE
       /\ lastCall.isFetchFailure = FALSE
       /\ lastCall.selectPayload = Undefined
       /\ lastCall.selectErrorPayload = Undefined

\* the selectors were applied for the unregistered key to a state without
\* the slice
C13_Witness ==
  /\ lastCall.fn = "selectors"
  /\ "reduxSagaFetch" \notin DOMAIN lastCall.state
  /\ lastCall.key = Unregistered

\* the keys of a slice whose status is FAILURE
FailedKeys(slice) == {k \in DOMAIN slice : slice[k].status = STATE_FAILURE}

\* C14: selectErrorPayloads returns one element {key, error} for each key
\* whose status is FAILURE, with the errorPayload of that key's entry, and
\* no element for any other key; it is empty when no key is FAILURE.
C14_ErrorPayloads ==
  lastCall.fn = "selectors" =>
    LET slice == SliceOf(lastCall)
        list  == lastCall.selectErrorPayloads
    IN  /\ \A i \in DOMAIN list :
             /\ list[i].key \in FailedKeys(slice)
             /\ list[i].error = slice[list[i].key].errorPayload
        /\ \A k \in FailedKeys(slice) :
             Cardinality({i \in DOMAIN list : list[i].key = k}) = 1
        /\ FailedKeys(slice) = {} => list = <<>>

\* two keys are FAILURE, one of them with the error null
C14_Witness ==
  /\ lastCall.fn = "selectors"
  /\ Len(lastCall.selectErrorPayloads) = 2
  /\ \E i \in DOMAIN lastCall.selectErrorPayloads :
       lastCall.selectErrorPayloads[i].error = Null

\* C15 as stated: hasFetchFailures returns true exactly when some key of
\* the slice has the status FAILURE.
C15_Original ==
  lastCall.fn = "selectors" =>
    (lastCall.hasFetchFailures = (FailedKeys(SliceOf(lastCall)) # {}))

----------------------------------------------------------------------------
(* Validation of the configuration *)

\* C16 as stated: createSagaFetcher throws for every string and for every
\* array, the empty array included.
C16_Original ==
  (lastCall.fn = "createSagaFetcher" /\ lastCall.config.kind \in {"string", "array"})
    => lastCall.threw

\* an entry of the configuration whose fetcher is absent or not a function
InvalidEntries(config) ==
  {i \in DOMAIN config.entries :
     \/ config.entries[i].options.kind # "object"
     \/ config.entries[i].options.fetcher # "function"}

\* C17: createSagaFetcher throws when any entry of the configuration, at
\* whatever position, has a fetcher that is absent or not a function, add
\* throws for such a descriptor, and the registry of an instance never
\* holds an entry whose fetcher is not a function.
C17_InvalidFetcherRejected ==
  /\ (lastCall.fn = "createSagaFetcher" /\ InvalidEntries(lastCall.config) # {})
       => (lastCall.threw /\ ~lastCall.instance)
  /\ (/\ lastCall.fn = "add"
      /\ \/ lastCall.options.kind # "object"
         \/ lastCall.options.fetcher # "function")
       => lastCall.threw
  /\ (lastCall.fn \in {"createSagaFetcher", "add"} /\ lastCall.instance)
       => \A k \in DOMAIN registry : registry[k].fetcher = "function"

\* createSagaFetcher threw for a configuration whose first entry is valid
\* and whose last entry has no fetcher function
C17_Witness ==
  /\ lastCall.fn = "createSagaFetcher"
  /\ lastCall.config.kind = "object"
  /\ Len(lastCall.config.entries) = MaxEntries
  /\ InvalidEntries(lastCall.config) = {MaxEntries}
  /\ lastCall.threw

----------------------------------------------------------------------------
(* Keys without a group, keys of different groups, terminal entries *)

\* the step dispatches a request of key
Starts(key) == dispatched' = Append(dispatched, key)

\* C18: a cycle of a key registered without a group is never suspended in
\* the wait for a group, and the cycle forked for a request of such a key
\* calls the fetcher in the step of the request, whatever the statuses of
\* the other keys.
C18_UngroupedNeverWaits ==
  [][\A k \in Keys :
       ~Truthy(registry[k].group) =>
         /\ \A i \in DOMAIN tasks' :
              tasks'[i].key = k
                => (tasks'[i].pc # "take" /\ tasks'[i].blockedInGroup = {})
         /\ (Starts(k) /\ Len(tasks') > Len(tasks))
              => (tasks'[Len(tasks')].key = k /\ tasks'[Len(tasks')].pc = "call")]_vars

\* the fetch of the ungrouped key runs while a key of a group runs its
\* fetch and another key of that group waits
C18_Witness ==
  \E k, k1, k2 \in Keys :
    /\ ~Truthy(registry[k].group)
    /\ Len(dispatched) > 0 /\ dispatched[Len(dispatched)] = k
    /\ Executing(k)
    /\ Executing(k1)
    /\ Waiting(k2)

\* C19: a waiting cycle waits only for keys of its own group, and a request
\* of B dispatched while no other key of the group of B is FETCHING calls
\* the fetcher of B in the same step, whatever the status of the keys
\* outside the group.
C19_OtherGroupsNeverBlock ==
  [][/\ \A i \in DOMAIN tasks' :
          \A A \in tasks'[i].blockedInGroup : SameGroup(A, tasks'[i].key)
     /\ \A B \in Keys :
          (/\ Starts(B)
           /\ Len(tasks') > Len(tasks)
           /\ \A A \in Keys : SameGroup(A, B) => ~isFetching(A, State))
            => Invokes(B)]_vars

\* A and B share no group; B was requested while A was FETCHING and has
\* put its outcome while the fetch of A is still pending
C19_Witness ==
  \E A, B \in Keys :
    /\ A # B /\ ~SameGroup(A, B)
    /\ dispatched = <<A, B>>
    /\ Executing(A)
    /\ StatusOf(state, B) \in Terminal
    /\ lastAction.type \in getFinishedActions({B})

\* C20: under takeLatest, in a step that dispatches no request of K, a K
\* that is SUCCESS or FAILURE keeps its entry, and isFetchSuccess,
\* isFetchFailure, selectPayload and selectErrorPayload of K return what
\* they returned before.
C20_TerminalStable ==
  [][\A K \in Keys :
       (/\ takeStrategyOf(K) = "takeLatest"
        /\ StatusOf(state, K) \in Terminal
        /\ ~Starts(K))
         => /\ StatusOf(state', K) = StatusOf(state, K)
            /\ K \in DOMAIN state' /\ state'[K] = state[K]
            /\ isFetchSuccess(K, State') = isFetchSuccess(K, State)
            /\ isFetchFailure(K, State') = isFetchFailure(K, State)
            /\ selectPayload(K, State') = selectPayload(K, State)
            /\ selectErrorPayload(K, State') = selectErrorPayload(K, State)]_vars

\* K is FAILURE with its error while another key was requested and has
\* just put its success
C20_Witness ==
  \E K, k2 \in Keys :
    /\ K # k2
    /\ takeStrategyOf(K) = "takeLatest"
    /\ dispatched = <<K, k2>>
    /\ StatusOf(state, K) = STATE_FAILURE
    /\ selectErrorPayload(K, State) = "Error"
    /\ lastAction.type = createRequestSuccessAction(k2)

----------------------------------------------------------------------------
(* The signals a cycle puts *)

\* the step in which the fetch called by task i settles and the task puts
\* its outcome
Completes(i) ==
  /\ tasks[i].pc = "call"
  /\ ~tasks[i].cancelled
  /\ tasks'[i].pc = "done"

\* C21: the task forked for a request holds the input of that request
\* until it returns, whatever is dispatched meanwhile; the outcome it puts
\* is a success action with exactly {response, request} or a failure
\* action with exactly {error, request}, of its own key, whose request is
\* that input; no outcome action reaches the store in any other step.
C21_SignalsCarryOwnRequest ==
  [][/\ \A k \in Keys :
          (Starts(k) /\ Len(tasks') > Len(tasks))
            => /\ tasks'[Len(tasks')].key = k
               /\ tasks'[Len(tasks')].request = lastAction'.payload.request
     /\ \A i \in DOMAIN tasks :
          /\ tasks'[i].pc # "done" => tasks'[i].request = tasks[i].request
          /\ Completes(i) =>
               /\ lastAction'.payload.request = tasks[i].request
               /\ \/ /\ lastAction'.type = createRequestSuccessAction(tasks[i].key)
                     /\ DOMAIN lastAction'.payload = {"response", "request"}
                  \/ /\ lastAction'.type = createRequestFailureAction(tasks[i].key)
                     /\ DOMAIN lastAction'.payload = {"error", "request"}
     /\ (lastAction' # lastAction /\ lastAction'.type[2] \in {"SUCCESS", "FAILURE"})
          => \E i \in DOMAIN tasks : Completes(i)]_vars

\* a key requested with 1234 while another key of its group was FETCHING
\* has put its success with the request 1234 after a third key was
\* requested with another input
C21_Witness ==
  \E A, K, C \in Keys :
    /\ dispatched = <<A, K, C>>
    /\ A # K /\ C # K /\ SameGroup(A, K)
    /\ lastAction.type = createRequestSuccessAction(K)
    /\ lastAction.payload.request = "1234"
    /\ StatusOf(state, C) = STATE_FETCHING
    /\ \E i \in DOMAIN tasks : tasks[i].key = C /\ tasks[i].request = "undefined"

----------------------------------------------------------------------------
(* The selector of a descriptor *)

\* the values of the slice testKey of the store
ContextValues == {"testValue", "null"}

\* the three keys in group g with the default strategy; a and b select
\* state.testKey, c has no selector
ContextRegistries ==
  {[k \in Keys |->
      IF k = "c"
      THEN [fetcher |-> "function", group |-> "g", takeStrategy |-> Undefined]
      ELSE [fetcher |-> "function", group |-> "g", takeStrategy |-> Undefined,
            selector |-> "testKey"]]}

InitContext ==
  /\ registry \in ContextRegistries
  /\ state = <<>>
  /\ tasks = <<>>
  /\ rootSaga = "running"
  /\ lastAction = [type |-> <<"@@redux", "INIT">>, payload |-> [request |-> Undefined]]
  /\ dispatched = <<>>
  /\ startedWhile = {}
  /\ lastCall = [fn |-> "none"]
  /\ testKey = "testValue"

\* an action of another reducer of the root reducer changes testKey; no
\* handler of the slice and no worker takes it.  lastCall records the keys
\* whose cycles were suspended in the wait for their group at that time.
SetTestKey(value) ==
  /\ value # testKey
  /\ testKey' = value
  /\ lastAction' = [type |-> <<"TESTKEY", "SET">>, payload |-> [request |-> value]]
  /\ lastCall' = [fn |-> "dispatch", value |-> value,
                  suspended |-> {k \in Keys : Waiting(k)}]
  /\ UNCHANGED <<registry, state, tasks, rootSaga, dispatched, startedWhile>>

\* the fetcher (payload, testValue) => Promise.resolve(testValue) called by
\* task i resolves
ResolveContext(i) ==
  /\ i \in DOMAIN tasks
  /\ tasks[i].pc = "call"
  /\ Resolve(i, tasks[i].requestedState)

NextContext ==
  \/ Next
  \/ \E value \in ContextValues : SetTestKey(value)
  \/ \E i \in 1..MaxStarts : ResolveContext(i)

ContextSpec == InitContext /\ [][NextContext]_vars

\* C22 as stated: the fetcher is called with the input of the request of
\* its cycle and with the selector of its key applied to the store state,
\* undefined without a selector; when the fetch resolves with that second
\* argument, selectPayload of the key returns it.
C22_Original ==
  [][/\ \A i \in DOMAIN tasks' :
          (tasks'[i].pc = "call" /\ (i \in DOMAIN tasks => tasks[i].pc # "call"))
            => /\ tasks'[i].requestedState =
                    (IF "selector" \in DOMAIN registry[tasks'[i].key]
                     THEN testKey' ELSE Undefined)
               /\ i \in DOMAIN tasks => tasks'[i].request = tasks[i].request
     /\ \A i \in DOMAIN tasks :
          (/\ Completes(i)
           /\ lastAction'.type = createRequestSuccessAction(tasks[i].key)
           /\ lastAction'.payload.response = tasks[i].requestedState)
            => selectPayload(tasks[i].key, State') = tasks[i].requestedState]_vars

\* C29: the second argument of the fetcher is the selector applied to the
\* store state of the step in which the fetcher is called; for a cycle
\* that was suspended in the wait for its group this is the state at the
\* end of the wait, with the changes made while it was suspended.
C29_ContextResolvedLate ==
  [][\A i \in DOMAIN tasks :
       (tasks[i].pc = "take" /\ tasks'[i].pc = "call")
         => /\ tasks[i].requestedState = Undefined
            /\ tasks'[i].requestedState = select(selectorOf(tasks[i].key), State')]_vars

\* testKey was changed while the only cycle of K was suspended, and the
\* fetcher of K has since been called with the new value
C29_Witness ==
  \E K \in Keys :
    /\ lastCall.fn = "dispatch"
    /\ K \in lastCall.suspended
    /\ Cardinality({i \in DOMAIN dispatched : dispatched[i] = K}) = 1
    /\ \E i \in DOMAIN tasks :
         /\ tasks[i].key = K
         /\ tasks[i].pc = "call"
         /\ tasks[i].requestedState = lastCall.value
         /\ testKey = lastCall.value

----------------------------------------------------------------------------
(* takeEvery and takeLeading *)

\* C23: for a takeEvery key every request forks a cycle, no cycle of the
\* key is ever cancelled, and each cycle, when its fetch settles, puts its
\* own outcome, which becomes the entry of the key whatever the other
\* cycles of the key do; so the entry after overlapping cycles is that of
\* the cycle that settled last.
C23_EveryRunsAll ==
  [][\A k \in Keys :
       takeStrategyOf(k) = "takeEvery" =>
         /\ Starts(k) =>
              /\ Len(tasks') = Len(tasks) + 1
              /\ tasks'[Len(tasks')].key = k
              /\ \A i \in DOMAIN tasks : tasks[i].key = k => tasks'[i] = tasks[i]
         /\ \A i \in DOMAIN tasks' : tasks'[i].key = k => ~tasks'[i].cancelled
         /\ \A i \in DOMAIN tasks :
              (tasks[i].key = k /\ tasks[i].pc = "call" /\ tasks'[i].pc = "done")
                => /\ lastAction'.type \in getFinishedActions({k})
                   /\ lastAction'.payload.request = tasks[i].request
                   /\ state'[k] =
                        (IF lastAction'.type = createRequestSuccessAction(k)
                         THEN [status |-> STATE_SUCCESS,
                               payload |-> lastAction'.payload.response,
                               errorPayload |-> Undefined]
                         ELSE [status |-> STATE_FAILURE,
                               payload |-> Undefined,
                               errorPayload |-> lastAction'.payload.error])]_vars

\* two cycles of a takeEvery key overlapped; the one started second has
\* put its outcome, which is the entry of the key, and the first still
\* runs its fetch
C23_Witness ==
  \E k \in Keys :
    /\ takeStrategyOf(k) = "takeEvery"
    /\ dispatched = <<k, k>>
    /\ tasks[1].pc = "call" /\ ~tasks[1].cancelled
    /\ tasks[2].pc = "done" /\ ~tasks[2].cancelled
    /\ StatusOf(state, k) \in Terminal
    /\ lastAction.type \in getFinishedActions({k})

\* C24: for a takeLeading key, a request dispatched while a cycle of the
\* key runs (suspended in the wait for its group or in its fetch) forks no
\* cycle, calls no fetcher and leaves every task as it is, the entry of
\* the key stays FETCHING, and no outcome is put in that step; the key
\* never has two cycles, so the outcome put later is that of the running
\* cycle, with the request of its own start.
C24_LeadingIgnoresRestart ==
  [][\A k \in Keys :
       takeStrategyOf(k) = "takeLeading" =>
         /\ (Starts(k) /\ Running(tasks, k) # {}) =>
              /\ tasks' = tasks
              /\ ~Invokes(k)
              /\ StatusOf(state, k) = STATE_FETCHING
              /\ StatusOf(state', k) = STATE_FETCHING
              /\ lastAction'.type = createRequestAction(k)
         /\ Cardinality(Running(tasks', k)) <= 1
         /\ \A i \in DOMAIN tasks :
              (tasks[i].key = k /\ Completes(i))
                => /\ lastAction'.type \in getFinishedActions({k})
                   /\ lastAction'.payload.request = tasks[i].request
                   /\ StatusOf(state', k) \in Terminal]_vars

\* a takeLeading key was requested twice, the second time while its first
\* cycle ran, and the single cycle has put its outcome
C24_Witness ==
  \E k \in Keys :
    /\ takeStrategyOf(k) = "takeLeading"
    /\ dispatched = <<k, k>>
    /\ Len(tasks) = 1
    /\ tasks[1].pc = "done"
    /\ lastAction.type \in getFinishedActions({k})
    /\ StatusOf(state, k) \in Terminal

----------------------------------------------------------------------------
(* Registration under a key that is already registered *)

\* C25: add with a valid descriptor never throws, whether or not the key
\* is registered, and leaves the registry with exactly the properties of
\* the new descriptor under the key and with the entries of all other keys
\* as they were.
C25_LastWriteWins ==
  (/\ lastCall.fn = "add"
   /\ lastCall.options.kind = "object"
   /\ lastCall.options.fetcher = "function")
    => /\ ~lastCall.threw
       /\ DOMAIN registry = DOMAIN lastCall.before \cup {lastCall.key}
       /\ registry[lastCall.key] = [fetcher |-> lastCall.options.fetcher,
                                    group |-> lastCall.options.group,
                                    takeStrategy |-> lastCall.options.takeStrategy]
       /\ \A k \in DOMAIN lastCall.before \ {lastCall.key} :
            registry[k] = lastCall.before[k]

\* a key registered with a group and a strategy was registered again with
\* a descriptor that has neither, next to another registered key
C25_Witness ==
  /\ lastCall.fn = "add"
  /\ ~lastCall.threw
  /\ lastCall.key \in DOMAIN lastCall.before
  /\ lastCall.before[lastCall.key].group = "g"
  /\ lastCall.options.group = Undefined
  /\ registry[lastCall.key].group = Undefined
  /\ DOMAIN registry # {lastCall.key}

----------------------------------------------------------------------------
(* The blockers of a key *)

\* the descriptors of the keys of a snapshot, with or without a group
BlockerRegistries ==
  [SnapshotKeys -> {[fetcher |-> "function", group |-> g, takeStrategy |-> Undefined] :
                      g \in Groups}]

\* select(fetchingActionsInGroup, registry, group, key) as the worker of
\* key calls it, on the snapshot s
Blockers(s, reg, key) ==
  /\ lastCall' = [fn |-> "fetchingActionsInGroup",
                  state |-> s,
                  registry |-> reg,
                  key |-> key,
                  result |-> fetchingActionsInGroup(s, reg, reg[key].group, key)]
  /\ UNCHANGED <<registry, state, tasks, rootSaga, lastAction, dispatched,
                 startedWhile, testKey>>

NextBlockers ==
  \E s \in Snapshots, reg \in BlockerRegistries, key \in SnapshotKeys :
    Blockers(s, reg, key)

BlockerSpec == InitSelectors /\ [][NextBlockers]_vars

\* C26 as stated: the blockers of K are exactly the other keys whose
\* registered group is the group of K and whose status is FETCHING, and
\* there are none when K has no group.
C26_Original ==
  lastCall.fn = "fetchingActionsInGroup" =>
    LET slice == SliceOf(lastCall)
        reg   == lastCall.registry
        K     == lastCall.key
    IN  lastCall.result =
          (IF reg[K].group = Undefined THEN {}
           ELSE {k \in DOMAIN slice \ {K} :
                   reg[k].group = reg[K].group /\ slice[k].status = STATE_FETCHING})

----------------------------------------------------------------------------
(* Progress of a group *)

\* the blockers a cycle of key would compute in the current state
BlockersNow(key) ==
  {k \in Keys \ {key} : SameGroup(k, key) /\ StatusOf(state, k) = STATE_FETCHING}

\* C27 as stated: in a group with a cycle suspended in the wait, some key
\* executes its fetch or some suspended key has no blocker left.
C27_Original ==
  \A group \in Groups :
    (Truthy(group) /\ \E k \in Members(group) : Waiting(k))
      => \/ \E k \in Members(group) : Executing(k)
         \/ \E k \in Members(group) : Waiting(k) /\ BlockersNow(k) = {}

\* C28: when a cycle puts the success or the failure of key k, every cycle
\* suspended on a blocker set that contains k is resumed in that step,
\* whatever the other blockers of the set do: it calls its fetcher if no
\* other key of its group is FETCHING then, and else is suspended again on
\* the set of those keys; a cycle whose set does not contain k stays as it
\* is.
C28_WakeUp ==
  [][\A i \in DOMAIN tasks :
       Completes(i) =>
         \A j \in DOMAIN tasks :
           (tasks[j].pc = "take" /\ ~tasks[j].cancelled) =>
             LET now == {k \in Keys \ {tasks[j].key} :
                           /\ SameGroup(k, tasks[j].key)
                           /\ StatusOf(state', k) = STATE_FETCHING}
             IN  IF tasks[i].key \in tasks[j].blockedInGroup
                 THEN /\ tasks'[j].pc = (IF now = {} THEN "call" ELSE "take")
                      /\ tasks'[j].blockedInGroup = now
                      /\ tasks'[j].request = tasks[j].request
                 ELSE tasks'[j] = tasks[j]]_vars

\* the failure of a has resumed the cycle of b, which had been requested
\* before c, and the cycle of b is suspended again, now on c alone
C28_Witness ==
  \E A, B, C \in Keys :
    /\ dispatched = <<A, B, C>>
    /\ A # B /\ B # C /\ A # C
    /\ lastAction.type = createRequestFailureAction(A)
    /\ \E j \in DOMAIN tasks :
         /\ tasks[j].key = B
         /\ tasks[j].pc = "take"
         /\ tasks[j].blockedInGroup = {C}

----------------------------------------------------------------------------
(* Groups with a takeEvery key *)

\* C30 as stated: whatever the strategies of its keys, at most one key of
\* a group has a cycle that called its fetcher and has not put its outcome.
C30_Original ==
  \A A, B \in Keys :
    (A # B /\ SameGroup(A, B)) => ~(Executing(A) /\ Executing(B))

----------------------------------------------------------------------------
(* Superseded fetches *)

\* the promise of a call of key has not settled; the cycle may have been
\* cancelled since
Outstanding(ts, key) ==
  \E i \in DOMAIN ts : ts[i].key = key /\ ts[i].pc = "call"

\* C31 as stated: with takeLatest for every key, the fetcher of B is not
\* called while a call of another key A of its group has not settled, the
\* calls of cancelled cycles of A included.
C31_Original ==
  [][\A A, B \in Keys :
       (SameGroup(A, B) /\ Invokes(B)) => ~Outstanding(tasks', A)]_vars

----------------------------------------------------------------------------
(* Keys that differ in letter case only *)

\* configurations with two keys that differ in case only and a third key;
\* no groups, the default strategy
CaseRegistries ==
  {[k \in D |-> [fetcher |-> "function", group |-> Undefined, takeStrategy |-> Undefined]] :
     D \in {{"a", "A", "b"}, {"B", "b", "a"}}}

InitCase ==
  /\ registry \in CaseRegistries
  /\ state = <<>>
  /\ tasks = <<>>
  /\ rootSaga = "running"
  /\ lastAction = [type |-> <<"@@redux", "INIT">>, payload |-> [request |-> Undefined]]
  /\ dispatched = <<>>
  /\ startedWhile = {}
  /\ lastCall = [fn |-> "none"]
  /\ testKey = "testValue"

\* a request action is taken by at most two watchers here; one input, one
\* response and one error
NextCase ==
  \/ \E key \in Keys \cup UpperKeys : Dispatch(key, "1234")
  \/ \E i \in 1..(2 * MaxStarts) : Resolve(i, "ok")
  \/ \E i \in 1..(2 * MaxStarts) : Reject(i, "Error")

CaseSpec == InitCase /\ [][NextCase]_vars

\* the entry of key in the slice, if any
EntryOf(s, key) == IF key \in DOMAIN s THEN <<s[key]>> ELSE <<>>

\* C32 as stated: for registered keys K1 # K2, also when they differ in
\* case only, a request action of K1 and the outcome put by a cycle of K1
\* change the entry of K1 alone and call the fetcher of K1 alone: the
\* entry of K2 stays as it is and the fetcher of K2 is not called.
C32_Original ==
  [][\A K1, K2 \in DOMAIN registry :
       (K1 # K2 /\ (Starts(K1) \/ \E i \in DOMAIN tasks : tasks[i].key = K1 /\ Completes(i)))
         => /\ EntryOf(state', K2) = EntryOf(state, K2)
            /\ ~Invokes(K2)]_vars

----------------------------------------------------------------------------
(* Requests of a key whose cycle waits for its group *)

\* C33: with takeLatest for every key, a request of K dispatched while a
\* cycle of K waits for its group ends that cycle, which never calls the
\* fetcher, and leaves one cycle of K, which holds the input of this
\* request; the cycle that leaves the wait and calls the fetcher of K is
\* the cycle of the most recent request of K, with the input it was forked
\* with, and the only cycle of K then; a cycle that has returned stays
\* returned, and an outcome of K is put only by the cycle of the most
\* recent request of K.
C33_StartsCollapse ==
  [][\A K \in Keys :
       /\ (Starts(K) /\ Waiting(K)) =>
            /\ \A i \in DOMAIN tasks :
                 (tasks[i].key = K /\ tasks[i].pc = "take")
                   => (tasks'[i].pc = "done" /\ tasks'[i].cancelled)
            /\ Running(tasks', K) = {Len(tasks')}
            /\ tasks'[Len(tasks')].request = lastAction'.payload.request
       /\ \A i \in DOMAIN tasks :
            tasks[i].key = K =>
              /\ (tasks[i].pc = "take" /\ tasks'[i].pc = "call")
                   => /\ Newest(tasks', K) = {i}
                      /\ Running(tasks', K) = {i}
                      /\ tasks'[i].request = tasks[i].request
              /\ tasks[i].pc = "done" => tasks'[i] = tasks[i]
              /\ Completes(i) => Newest(tasks, K) = {i}]_vars

\* two requests of K were dispatched while K waited for A; A has finished,
\* the cycle of the first request of K was cancelled in its wait and the
\* cycle of the second one has called the fetcher with its input
C33_Witness ==
  \E A, K \in Keys :
    /\ A # K
    /\ dispatched = <<A, K, K>>
    /\ tasks[1].pc = "done" /\ ~tasks[1].cancelled
    /\ tasks[2].pc = "done" /\ tasks[2].cancelled
    /\ tasks[3].key = K /\ tasks[3].pc = "call" /\ ~tasks[3].cancelled
    /\ tasks[3].request = "1234"
    /\ tasks[3].blockedInGroup = {}
    /\ StatusOf(state, A) \in Terminal

----------------------------------------------------------------------------
(* One outcome per cycle *)

\* the number of requests of key dispatched so far
StartsOf(ds, key) == Cardinality({n \in DOMAIN ds : ds[n] = key})

\* the cycles of key that have put their outcome
Finished(ts, key) ==
  {i \in DOMAIN ts : ts[i].key = key /\ ts[i].pc = "done" /\ ~ts[i].cancelled}

\* C34: whatever the strategy, the step in which the fetch of a cycle that
\* was not cancelled settles puts one action and ends the cycle: the
\* success action of its key if the fetch resolved, the failure action of
\* its key if it rejected or threw; no other cycle puts an outcome in that
\* step, a cycle that has returned puts nothing more, the store changes
\* outside of requests only in such a step, and for every key the cycles
\* that have put an outcome are at most as many as the requests of the key.
C34_OneOutcome ==
  [][/\ \A i \in DOMAIN tasks :
          /\ Completes(i) =>
               /\ {j \in DOMAIN tasks : Completes(j)} = {i}
               /\ (\E response \in Responses : Resolve(i, response))
                    => /\ lastAction'.type = createRequestSuccessAction(tasks[i].key)
                       /\ StatusOf(state', tasks[i].key) = STATE_SUCCESS
               /\ (\E error \in Errors : Reject(i, error))
                    => /\ lastAction'.type = createRequestFailureAction(tasks[i].key)
                       /\ StatusOf(state', tasks[i].key) = STATE_FAILURE
          /\ tasks[i].pc = "done" => tasks'[i] = tasks[i]
     /\ ((state' # state \/ lastAction' # lastAction) /\ dispatched' = dispatched)
          => \E i \in DOMAIN tasks : Completes(i)
     /\ \A K \in Keys :
          Cardinality(Finished(tasks', K)) <= StartsOf(dispatched', K)]_vars

\* a key has had two cycles, the first ended with its success action and
\* the second with its failure action
C34_Witness ==
  \E K \in Keys :
    /\ StartsOf(dispatched, K) = 2
    /\ Cardinality(Finished(tasks, K)) = 2
    /\ lastAction.type = createRequestFailureAction(K)
    /\ StatusOf(state, K) = STATE_FAILURE
    /\ \E k2 \in Keys \ {K} : StatusOf(state, k2) = STATE_SUCCESS

----------------------------------------------------------------------------
(* The keys of the status table *)

\* C35 as stated: the keys that have an entry are the registered keys of
\* which a request was dispatched, no entry is ever removed, and the
\* request of a key that is not registered creates no entry and calls no
\* fetcher.
C35_Original ==
  [][/\ DOMAIN state' = {k \in DOMAIN registry : StartsOf(dispatched', k) > 0}
     /\ DOMAIN state \subseteq DOMAIN state'
     /\ \A K \in (Keys \cup UpperKeys) \ DOMAIN registry :
          Starts(K) => /\ DOMAIN state' = DOMAIN state
                       /\ \A k \in DOMAIN registry : ~Invokes(k)]_vars

----------------------------------------------------------------------------
(* A registration that is rejected *)

\* the descriptor is an object whose fetcher is a function
ValidOptions(options) == options.kind = "object" /\ options.fetcher = "function"

\* C36: an add call whose descriptor has no fetcher function throws and
\* leaves the registry as it was, the descriptor already registered under
\* the key included; an add call with a valid descriptor that follows a
\* rejected one does not throw and registers the descriptor.
C36_RejectedAddChangesNothing ==
  [][lastCall'.fn = "add" =>
       /\ ~ValidOptions(lastCall'.options)
            => (lastCall'.threw /\ registry' = registry)
       /\ (lastCall.fn = "add" /\ lastCall.threw /\ ValidOptions(lastCall'.options))
            => /\ ~lastCall'.threw
               /\ lastCall'.key \in DOMAIN registry'
               /\ registry'[lastCall'.key].fetcher = "function"
               /\ registry'[lastCall'.key].group = lastCall'.options.group]_vars

\* add was rejected for a key that is registered with a group and a
\* strategy, and the registry still holds that descriptor
C36_Witness ==
  /\ lastCall.fn = "add"
  /\ lastCall.threw
  /\ lastCall.key \in DOMAIN registry
  /\ registry[lastCall.key].group = "g"
  /\ registry[lastCall.key].takeStrategy = "takeEvery"
  /\ registry = lastCall.before

----------------------------------------------------------------------------
(* The wait of a cycle and the finish actions of its blockers *)

\* the keys of the group of key, other than key, that are FETCHING in the
\* slice s
FetchingPeers(s, key) ==
  {k \in Keys \ {key} : SameGroup(k, key) /\ StatusOf(s, k) = STATE_FETCHING}

\* C37: a cycle that is suspended in the wait in a step, being new or
\* resumed, waits for exactly the keys of its group that are FETCHING after
\* that step; every key a suspended cycle waits for is still FETCHING, so
\* no finish action of a blocker has passed without resuming the cycle;
\* and the step that puts the outcome of a blocker resumes the cycle, which
\* calls its fetcher or waits for the keys that are FETCHING then.
C37_NoLostWakeUp ==
  [][\A j \in DOMAIN tasks' :
       (tasks'[j].pc = "take" /\ ~tasks'[j].cancelled) =>
         /\ tasks'[j].blockedInGroup # {}
         /\ tasks'[j].blockedInGroup \subseteq FetchingPeers(state', tasks'[j].key)
         /\ (j \notin DOMAIN tasks \/ tasks'[j] # tasks[j])
              => tasks'[j].blockedInGroup = FetchingPeers(state', tasks'[j].key)
         /\ (j \in DOMAIN tasks /\ tasks'[j] = tasks[j])
              => \A i \in DOMAIN tasks :
                   Completes(i) => tasks[i].key \notin tasks[j].blockedInGroup]_vars

\* the outcome of A was put while B waited for A: the cycle of B was
\* resumed in that step and has called its fetcher
C37_Witness ==
  \E A, B \in Keys :
    /\ SameGroup(A, B)
    /\ dispatched = <<A, B>>
    /\ lastAction.type \in getFinishedActions({A})
    /\ tasks[1].pc = "done" /\ ~tasks[1].cancelled
    /\ tasks[2].key = B /\ tasks[2].pc = "call"
    /\ StatusOf(state, A) \in Terminal
    /\ StatusOf(state, B) = STATE_FETCHING

====
